---- MODULE Spec2Model ----
(***************************************************************************)
(* Transaction lifecycle of the PIX subscription storefront: the HTTP      *)
(* routes (create, status poll, webhook, refund, subscriptions), the       *)
(* WebhookService, the gateway clients and the in-memory storage.          *)
(*                                                                         *)
(* Granularity.  Every MemStorage method resolves without I/O, so a route  *)
(* handler can be interleaved with another one only while it awaits the    *)
(* gateway (fetch).  The create and the status routes are therefore two    *)
(* steps each (request sent / reply handled); the webhook route is one     *)
(* step; the startup sweep is a loop whose iterations are single steps     *)
(* during which nothing else runs.  Where the process may die, the webhook *)
(* route is two steps (event stored / event handled) with nothing but the  *)
(* crash between them.                                                     *)
(***************************************************************************)
EXTENDS Integers, Sequences, FiniteSets, TLC

VARIABLES
    transactions,   \* MemStorage.transactions, in insertion order
    subscriptions,  \* MemStorage.subscriptions, in insertion order
    webhookEvents,  \* MemStorage.webhookEvents, in insertion order
    now,            \* the wall clock (new Date()), as a day number
    creating,       \* create requests awaiting the gateway's reply
    polling,        \* status requests awaiting the gateway's reply
    issued,         \* how many transaction ids the gateway has issued
    sweep,          \* the startup sweep: started or not, events left to replay
    receiving,      \* the webhook payload stored as an event and not yet handled
    response,       \* the HTTP response the latest step sent (route "none": none)
    client,         \* the browser's checkout modal
    gateway         \* the status the gateway holds for each of its ids

vars == <<transactions, subscriptions, webhookEvents, now, creating, polling,
          issued, sweep, receiving, response, client, gateway>>

---------------------------------------------------------------------------
(* Bounds of the model *)

MaxTx == 2
MaxEvents == 2
MaxInflight == 1
PaymentTicks == 2   \* the modal's count-down of 900 s, in ticks

---------------------------------------------------------------------------
(* Value sets *)

NoUser == "null"
Users == {"u1", "u2"}

\* transactions.status: "pending, paid, failed, cancelled, refunded"
KnownStatuses == {"pending", "paid", "failed", "cancelled", "refunded"}

\* Status strings a webhook payload or the gateway's status list may carry:
\* neither is validated, so any string arrives; "expired" stands for the
\* strings outside the schema's vocabulary.
WireStatuses == KnownStatuses \cup {"expired"}

UnicIds == 1..MaxTx

---------------------------------------------------------------------------
(* Date: the calendar arithmetic of Date.setMonth / Date.setFullYear.      *)
(* A Date is a day number, day 0 being 2024-01-01; months are 0..11 as in  *)
(* JavaScript.  The time of day is carried over unchanged by setMonth and  *)
(* setFullYear and is left out.                                            *)

IsLeap(y) == (y % 4 = 0 /\ y % 100 # 0) \/ y % 400 = 0

DaysInYear(y) == IF IsLeap(y) THEN 366 ELSE 365

DaysInMonth(y, m) ==
    CASE m = 1 -> IF IsLeap(y) THEN 29 ELSE 28
      [] m \in {3, 5, 8, 10} -> 30
      [] OTHER -> 31

RECURSIVE DayFromYear(_)
DayFromYear(y) == IF y <= 2024 THEN 0 ELSE DayFromYear(y - 1) + DaysInYear(y - 1)

RECURSIVE DaysBeforeMonth(_, _)
DaysBeforeMonth(y, m) ==
    IF m = 0 THEN 0 ELSE DaysBeforeMonth(y, m - 1) + DaysInMonth(y, m - 1)

\* ECMAScript MakeDay: the month overflows into the year, the date into the
\* following months.
MakeDay(y, m, d) ==
    LET ym == y + (m \div 12)
        mn == m % 12
    IN  DayFromYear(ym) + DaysBeforeMonth(ym, mn) + d - 1

RECURSIVE YearFromDay(_, _)
YearFromDay(t, y) ==
    IF t < DayFromYear(y + 1) THEN y ELSE YearFromDay(t, y + 1)

GetFullYear(t) == YearFromDay(t, 2024)

RECURSIVE MonthFromDay(_, _, _)
MonthFromDay(t, y, m) ==
    IF t < DayFromYear(y) + DaysBeforeMonth(y, m + 1) THEN m
    ELSE MonthFromDay(t, y, m + 1)

GetMonth(t) == MonthFromDay(t, GetFullYear(t), 0)

GetDate(t) ==
    t - DayFromYear(GetFullYear(t))
      - DaysBeforeMonth(GetFullYear(t), GetMonth(t)) + 1

SetMonth(t, m) == MakeDay(GetFullYear(t), m, GetDate(t))

SetFullYear(t, y) == MakeDay(y, GetMonth(t), GetDate(t))

\* The instants the clock takes: the end of January and the leap day (the
\* dates whose day of month does not exist one month or one year later),
\* and two later days.
Instants ==
    {MakeDay(2024, 0, 31), MakeDay(2024, 1, 29), MakeDay(2024, 2, 2),
     MakeDay(2025, 2, 1)}

---------------------------------------------------------------------------
(* Checkout form.  A string field is modelled by what the schema reads of  *)
(* it: its length (name, document, phone) or whether it has the shape of   *)
(* an e-mail address; complete says that plan, price and title are there   *)
(* with their types.                                                       *)

Form(nameLen, emailOk, documentLen, phoneLen, complete, plan, price) ==
    [nameLen |-> nameLen, emailOk |-> emailOk, documentLen |-> documentLen,
     phoneLen |-> phoneLen, complete |-> complete, plan |-> plan,
     price |-> price]

\* The plans and prices are those of the plan buttons of the client.
Forms ==
    {Form(9, TRUE, 11, 11, TRUE, "premium", 2990),
     Form(9, TRUE, 11, 10, TRUE, "annual", 29900),
     Form(1, TRUE, 11, 11, TRUE, "premium", 2990),
     Form(9, FALSE, 11, 11, TRUE, "premium", 2990),
     Form(9, TRUE, 10, 11, TRUE, "annual", 29900),
     Form(9, TRUE, 12, 11, TRUE, "annual", 29900),
     Form(9, TRUE, 11, 9, TRUE, "basic", 1990),
     Form(9, TRUE, 11, 11, FALSE, "basic", 1990)}

\* The schema with the document's upper length bound forgotten
CheckoutFormValidNoMax(f) ==
    /\ f.nameLen >= 2
    /\ f.emailOk
    /\ f.documentLen >= 11
    /\ f.phoneLen >= 10
    /\ f.complete

\* checkoutFormSchema.parse succeeds
CheckoutFormValid(f) ==
    /\ f.nameLen >= 2
    /\ f.emailOk
    /\ f.documentLen >= 11
    /\ f.documentLen <= 11
    /\ f.phoneLen >= 10
    /\ f.complete

---------------------------------------------------------------------------
(* Gateway client (BullsPayService).  The gateway is outside the program: *)
(* a reply is an input.                                                    *)

\* Replies to POST /transactions/create: fetch rejects (transport error), or
\* an HTTP reply with its ok flag, the body's success flag and its qrcode.
CreateReplies ==
    {[fetch |-> "rejected", ok |-> FALSE, success |-> FALSE, qrcode |-> ""],
     [fetch |-> "replied", ok |-> FALSE, success |-> FALSE, qrcode |-> ""],
     [fetch |-> "replied", ok |-> TRUE, success |-> FALSE, qrcode |-> ""],
     [fetch |-> "replied", ok |-> TRUE, success |-> TRUE, qrcode |-> "pix"],
     [fetch |-> "replied", ok |-> TRUE, success |-> TRUE, qrcode |-> ""]}

\* BullsPayService.createTransaction returns (TRUE) or throws (FALSE)
BullsPayCreateReturns(reply) ==
    /\ reply.fetch = "replied"
    /\ reply.ok
    /\ reply.success

\* Replies to GET /transactions/list?id=: fetch rejects or the HTTP reply is
\* not ok ("error"), the body is unsuccessful or lists nothing ("empty"),
\* or the first listed transaction has the given status.
PollReplies ==
    {[kind |-> "error", status |-> ""], [kind |-> "empty", status |-> ""]}
    \cup [kind : {"listed"}, status : WireStatuses]

\* The lookup that ignores what the gateway lists and falls back always
CheckTransactionStatusAlwaysPending(reply) == "pending"

\* BullsPayService.checkTransactionStatus: the status it returns (the reply
\* is not "error": then it throws)
CheckTransactionStatus(reply) ==
    IF reply.kind = "listed" THEN reply.status ELSE "pending"

\* Replies to SourcePay's GET /v1/transactions/: as PollReplies, "empty"
\* being a body that is unsuccessful or has no data; the status "" is a
\* status that is missing from the data.
SourcePayStatuses ==
    {"paid", "PAID", "approved", "pending", "waiting_payment", "failed",
     "cancelled", "expired", "refunded", "chargeback", ""}

SourcePayReplies ==
    {[kind |-> "error", status |-> ""], [kind |-> "empty", status |-> ""]}
    \cup [kind : {"listed"}, status : SourcePayStatuses]

\* String.toLowerCase on the statuses above
ToLowerCase(status) == IF status = "PAID" THEN "paid" ELSE status

\* SourcePayService.checkTransactionStatus: the status it returns (the
\* reply is not "error": then it throws)
SourcePayCheckTransactionStatus(reply) ==
    IF reply.kind = "listed"
    THEN CASE ToLowerCase(reply.status) \in {"paid", "approved"} -> "paid"
           [] ToLowerCase(reply.status) \in {"pending", "waiting_payment"} ->
                  "pending"
           [] ToLowerCase(reply.status) \in {"failed", "cancelled", "expired"} ->
                  "failed"
           [] OTHER -> "pending"
    ELSE "pending"

\* Replies to SourcePay's POST /v1/transactions: the fetch rejects, the
\* answer is not ok, or a body arrives whose success flag is false, true or
\* missing ("none"), with or without a PIX code of its own.
SourcePayCreateReplies ==
    {[kind |-> "rejected", success |-> "none", qrCode |-> ""],
     [kind |-> "notok", success |-> "none", qrCode |-> ""]}
    \cup [kind : {"body"}, success : {"true", "false", "none"},
          qrCode : {"", "pix0"}]

\* Replies to the follow-up GET /v1/transactions/:id: the fetch rejects,
\* the answer is not ok, its body is not JSON, it has no pix.qrcode, or it
\* has one.
SourcePayDetailsReplies == {"rejected", "notok", "badjson", "nopix", "pix"}

\* SourcePayService.createTransaction failing with the follow-up fetch
SourcePayCreateTransactionStrict(reply, details) ==
    IF reply.kind # "body" \/ reply.success = "false"
    THEN [returns |-> FALSE, qrCode |-> "", fetches |-> <<"create">>]
    ELSE IF details \in {"rejected", "notok", "badjson"}
    THEN [returns |-> FALSE, qrCode |-> "", fetches |-> <<"create", "details">>]
    ELSE [returns |-> TRUE,
          qrCode |-> IF details = "pix" THEN "pix" ELSE reply.qrCode,
          fetches |-> <<"create", "details">>]

\* SourcePayService.createTransaction: whether it returns (or throws), the
\* PIX code of the data it returns, and the fetches it has made
SourcePayCreateTransaction(reply, details) ==
    IF reply.kind # "body" \/ reply.success = "false"
    THEN [returns |-> FALSE, qrCode |-> "", fetches |-> <<"create">>]
    ELSE [returns |-> TRUE,
          qrCode |-> IF details = "pix" THEN "pix" ELSE reply.qrCode,
          fetches |-> <<"create", "details">>]

\* Replies to PUT /transactions/refund/: "error" (fetch rejects or not ok),
\* or the body's success flag.
RefundReplies == {"error", "success", "failure"}

---------------------------------------------------------------------------
(* MemStorage *)

Min(S) == CHOOSE x \in S : \A y \in S : x <= y

\* getTransactionByUnicId: the index of the first transaction with this
\* gateway id, 0 when there is none
GetTransactionByUnicId(txs, unicId) ==
    LET hits == {i \in DOMAIN txs : txs[i].unicId = unicId}
    IN  IF hits = {} THEN 0 ELSE Min(hits)

\* createTransaction purging the failed transactions before it inserts
NotFailed(t) == t.status # "failed"

StorageCreateTransactionPurgingFailed(txs, insert) ==
    Append(SelectSeq(txs, NotFailed),
           [id |-> Len(txs) + 1, unicId |-> insert.unicId,
            userId |-> insert.userId, amount |-> insert.amount,
            status |-> insert.status, plan |-> insert.plan,
            qrCodeText |-> insert.qrCodeText])

\* createTransaction: the record gets the next id
StorageCreateTransaction(txs, insert) ==
    Append(txs, [id |-> Len(txs) + 1, unicId |-> insert.unicId,
                 userId |-> insert.userId, amount |-> insert.amount,
                 status |-> insert.status, plan |-> insert.plan,
                 qrCodeText |-> insert.qrCodeText])

\* The update that refuses a status the transaction already has: nothing is
\* returned for it
UpdateTransactionStatusRefusingRepeat(txs, unicId, status) ==
    LET i == GetTransactionByUnicId(txs, unicId)
    IN  IF i # 0 /\ txs[i].status # status
        THEN [transactions |-> [txs EXCEPT ![i].status = status], found |-> i]
        ELSE [transactions |-> txs, found |-> 0]

\* The update that takes an absent payment-data patch for an empty one and
\* overwrites the payment data with it
UpdateTransactionStatusDroppingPaymentData(txs, unicId, status) ==
    LET i == GetTransactionByUnicId(txs, unicId)
    IN  IF i # 0
        THEN [transactions |->
                  [txs EXCEPT ![i].status = status, ![i].qrCodeText = ""],
              found |-> i]
        ELSE [transactions |-> txs, found |-> 0]

\* The update fabricating a record for a gateway id that is not stored
UpdateTransactionStatusUpsert(txs, unicId, status) ==
    LET i == GetTransactionByUnicId(txs, unicId)
    IN  IF i # 0
        THEN [transactions |-> [txs EXCEPT ![i].status = status], found |-> i]
        ELSE [transactions |->
                  StorageCreateTransaction(txs,
                      [unicId |-> unicId, userId |-> NoUser, amount |-> 0,
                       status |-> status, plan |-> "", qrCodeText |-> ""]),
              found |-> Len(txs) + 1]

\* updateTransactionStatus(unicId, status): the store after the call, and
\* the index of the transaction it returns (0: undefined)
UpdateTransactionStatus(txs, unicId, status) ==
    LET i == GetTransactionByUnicId(txs, unicId)
    IN  IF i # 0
        THEN [transactions |-> [txs EXCEPT ![i].status = status], found |-> i]
        ELSE [transactions |-> txs, found |-> 0]

\* The query with an end date of this very instant still counted as future
GetUserActiveSubscriptionInclusive(subs, userId, clock) ==
    LET hits == {i \in DOMAIN subs :
                    /\ subs[i].userId = userId
                    /\ subs[i].status = "active"
                    /\ subs[i].endDate >= clock}
    IN  IF hits = {} THEN <<>> ELSE <<subs[Min(hits)]>>

\* getUserActiveSubscription: the first match, as a sequence of at most one
GetUserActiveSubscription(subs, userId, clock) ==
    LET hits == {i \in DOMAIN subs :
                    /\ subs[i].userId = userId
                    /\ subs[i].status = "active"
                    /\ subs[i].endDate > clock}
    IN  IF hits = {} THEN <<>> ELSE <<subs[Min(hits)]>>

StorageCreateSubscription(subs, insert) == Append(subs, insert)

StorageUpdateSubscriptionStatus(subs, i, status) ==
    [subs EXCEPT ![i].status = status]

StorageCreateWebhookEvent(events, insert) == Append(events, insert)

\* getUnprocessedWebhookEvents, as indices in insertion order
RECURSIVE UnprocessedFrom(_, _)
UnprocessedFrom(events, i) ==
    IF i > Len(events) THEN <<>>
    ELSE IF ~events[i].processed
         THEN <<i>> \o UnprocessedFrom(events, i + 1)
         ELSE UnprocessedFrom(events, i + 1)

GetUnprocessedWebhookEvents(events) == UnprocessedFrom(events, 1)

MarkWebhookEventProcessed(events, i) == [events EXCEPT ![i].processed = TRUE]

---------------------------------------------------------------------------
(* WebhookService *)

\* The end date createSubscription computes from the plan
EndDate(plan, clock) ==
    CASE plan \in {"premium", "basic"} -> SetMonth(clock, GetMonth(clock) + 1)
      [] plan = "annual" -> SetFullYear(clock, GetFullYear(clock) + 1)
      [] OTHER -> SetMonth(clock, GetMonth(clock) + 1)

\* createSubscription(transaction).  The two new Date() of the code are
\* read in the same synchronous stretch: one clock value.
CreateSubscription(subs, tx, clock) ==
    StorageCreateSubscription(subs,
        [userId |-> tx.userId, transactionId |-> tx.id, plan |-> tx.plan,
         status |-> "active", startDate |-> clock,
         endDate |-> EndDate(tx.plan, clock)])

\* handleFailedPayment(transaction): it logs
HandleFailedPayment(subs, tx) == subs

\* The handler creating the subscription on every settled status
HandleTransactionEventAnySettled(txs, subs, unicId, status, clock) ==
    LET upd == UpdateTransactionStatus(txs, unicId, status)
    IN  IF upd.found = 0
        THEN [transactions |-> txs, subscriptions |-> subs, found |-> FALSE]
        ELSE LET tx == upd.transactions[upd.found]
                 subs1 == IF status # "pending" /\ tx.userId # NoUser
                          THEN CreateSubscription(subs, tx, clock)
                          ELSE subs
             IN  [transactions |-> upd.transactions, subscriptions |-> subs1,
                  found |-> TRUE]

\* The handler creating the subscription of a paid transaction without
\* looking for its user
HandleTransactionEventForAnyone(txs, subs, unicId, status, clock) ==
    LET upd == UpdateTransactionStatus(txs, unicId, status)
    IN  IF upd.found = 0
        THEN [transactions |-> txs, subscriptions |-> subs, found |-> FALSE]
        ELSE LET tx == upd.transactions[upd.found]
                 subs1 == IF status = "paid"
                          THEN CreateSubscription(subs, tx, clock)
                          ELSE subs
             IN  [transactions |-> upd.transactions, subscriptions |-> subs1,
                  found |-> TRUE]

\* handleTransactionEvent(payload), payload.data = {unic_id, status}
HandleTransactionEvent(txs, subs, unicId, status, clock) ==
    LET upd == UpdateTransactionStatus(txs, unicId, status)
    IN  IF upd.found = 0
        THEN [transactions |-> txs, subscriptions |-> subs, found |-> FALSE]
        ELSE LET tx == upd.transactions[upd.found]
                 subs1 == IF status = "paid" /\ tx.userId # NoUser
                          THEN CreateSubscription(subs, tx, clock)
                          ELSE subs
                 subs2 == IF status \in {"failed", "cancelled"}
                          THEN HandleFailedPayment(subs1, tx)
                          ELSE subs1
             IN  [transactions |-> upd.transactions, subscriptions |-> subs2,
                  found |-> TRUE]

---------------------------------------------------------------------------
(* HTTP responses: one record shape for all routes, the fields a route     *)
(* does not send left at their defaults.                                   *)

Response(route, code, success) ==
    [route |-> route, code |-> code, success |-> success, transactionId |-> 0,
     unicId |-> 0, status |-> "", qrCodeText |-> "", userId |-> "",
     data |-> <<>>]

\* A step that answers no request
NoResponse == Response("none", 0, FALSE)

---------------------------------------------------------------------------
(* Initial state: empty storage, the startup sweep not yet run *)

\* The checkout modal as it opens: CheckoutStep, and what the hooks hold
CheckoutSteps == {"form", "payment", "pix", "success", "error"}

\* useState("form"), useState(900) counted in ticks, currentTransaction null
InitialClient ==
    [step |-> "form", timer |-> PaymentTicks, unicId |-> 0, request |-> "none"]

Init ==
    /\ transactions = <<>>
    /\ subscriptions = <<>>
    /\ webhookEvents = <<>>
    /\ now = Min(Instants)
    /\ creating = {}
    /\ polling = {}
    /\ issued = 0
    /\ sweep = [started |-> FALSE, todo |-> <<>>]
    /\ receiving = <<>>
    /\ response = NoResponse
    /\ client = InitialClient
    /\ gateway = [unicId \in UnicIds |-> "pending"]

\* No iteration of the startup sweep is pending and no webhook is between
\* the storing of its event and its handling: a request can be served.
Idle == sweep.todo = <<>> /\ receiving = <<>>

Awaiting == Cardinality(creating) + Cardinality(polling)

---------------------------------------------------------------------------
(* POST /api/transactions/create *)

\* The request arrives: the form is parsed, and the gateway is called.
CreateRequest(f) ==
    /\ Idle
    /\ IF CheckoutFormValid(f)
       THEN /\ Awaiting < MaxInflight
            /\ issued + Cardinality(creating) < MaxTx
            /\ creating' = creating \cup {f}
            /\ response' = NoResponse
       ELSE /\ response' = Response("create", 400, FALSE)
            /\ UNCHANGED creating
    /\ UNCHANGED <<client, gateway, receiving,
                   transactions, subscriptions, webhookEvents, now, polling,
                   issued, sweep>>

\* The transaction the route stores for a form and the gateway's data
CheckoutTransaction(f, unicId, qrcode) ==
    [unicId |-> unicId, userId |-> NoUser, amount |-> f.price,
     status |-> "pending", plan |-> f.plan, qrCodeText |-> qrcode]

\* The gateway's reply arrives: the transaction is stored, or the error caught.
CreateReply(f, reply) ==
    /\ Idle
    /\ f \in creating
    /\ creating' = creating \ {f}
    /\ IF BullsPayCreateReturns(reply)
       THEN /\ issued' = issued + 1
            /\ transactions' =
                 StorageCreateTransaction(transactions,
                     CheckoutTransaction(f, issued + 1, reply.qrcode))
            /\ response' =
                 [Response("create", 200, TRUE) EXCEPT
                     !.transactionId = Len(transactions) + 1,
                     !.unicId = issued + 1,
                     !.status = "pending",
                     !.qrCodeText = reply.qrcode]
       ELSE /\ response' = Response("create", 400, FALSE)
            /\ UNCHANGED <<transactions, issued>>
    /\ UNCHANGED <<client, gateway, receiving,
                   subscriptions, webhookEvents, now, polling, sweep>>

---------------------------------------------------------------------------
(* IStorage.createTransaction for a transaction that has a user.  The      *)
(* checkout route is its one caller under src and passes userId null; a    *)
(* transaction of a user enters the store through this operation alone.    *)

UserTransactions ==
    {[userId |-> "u1", plan |-> "premium", amount |-> 2990],
     [userId |-> "u1", plan |-> "annual", amount |-> 29900],
     [userId |-> "u2", plan |-> "basic", amount |-> 1990],
     [userId |-> "u2", plan |-> "gold", amount |-> 4990]}

CreateUserTransaction(t) ==
    /\ Idle
    /\ issued + Cardinality(creating) < MaxTx
    /\ issued' = issued + 1
    /\ transactions' =
         StorageCreateTransaction(transactions,
             [unicId |-> issued + 1, userId |-> t.userId, amount |-> t.amount,
              status |-> "pending", plan |-> t.plan, qrCodeText |-> "pix"])
    /\ response' = NoResponse
    /\ UNCHANGED <<client, gateway, receiving,
                   subscriptions, webhookEvents, now, creating, polling, sweep>>

---------------------------------------------------------------------------
(* POST /api/webhook/bullspay: WebhookService.processWebhookEvent *)

WebhookReceive(unicId, status) ==
    /\ Idle
    /\ Len(webhookEvents) < MaxEvents
    /\ LET stored == StorageCreateWebhookEvent(webhookEvents,
                         [transactionId |-> unicId, status |-> status,
                          processed |-> FALSE])
           done == HandleTransactionEvent(transactions, subscriptions, unicId,
                                          status, now)
       IN  /\ webhookEvents' = stored
           /\ transactions' = done.transactions
           /\ subscriptions' = done.subscriptions
    /\ response' = Response("webhook", 200, TRUE)
    /\ UNCHANGED <<client, gateway, receiving, now, creating, polling, issued, sweep>>

\* The webhook route in two steps, for where the process may die between
\* them.  First step: the request arrives and createWebhookEvent stores the
\* event.  This variant looks for an event with the same payload first.
WebhookPersistDeduplicating(unicId, status) ==
    /\ Idle
    /\ Len(webhookEvents) < MaxEvents
    /\ webhookEvents' =
         IF \E k \in DOMAIN webhookEvents :
                /\ webhookEvents[k].transactionId = unicId
                /\ webhookEvents[k].status = status
         THEN webhookEvents
         ELSE StorageCreateWebhookEvent(webhookEvents,
                  [transactionId |-> unicId, status |-> status,
                   processed |-> FALSE])
    /\ receiving' = <<[transactionId |-> unicId, status |-> status]>>
    /\ response' = NoResponse
    /\ UNCHANGED <<client, gateway, transactions, subscriptions, now, creating, polling,
                   issued, sweep>>

WebhookPersist(unicId, status) ==
    /\ Idle
    /\ Len(webhookEvents) < MaxEvents
    /\ webhookEvents' =
         StorageCreateWebhookEvent(webhookEvents,
             [transactionId |-> unicId, status |-> status,
              processed |-> FALSE])
    /\ receiving' = <<[transactionId |-> unicId, status |-> status]>>
    /\ response' = NoResponse
    /\ UNCHANGED <<client, gateway, transactions, subscriptions, now, creating, polling,
                   issued, sweep>>

\* Second step, with a failure answered to the gateway when the handler
\* finds no transaction
WebhookProcessStrict ==
    /\ receiving # <<>>
    /\ LET done == HandleTransactionEvent(transactions, subscriptions,
                       receiving[1].transactionId, receiving[1].status, now)
       IN  /\ transactions' = done.transactions
           /\ subscriptions' = done.subscriptions
           /\ response' = IF done.found
                          THEN Response("webhook", 200, TRUE)
                          ELSE Response("webhook", 500, FALSE)
    /\ receiving' = <<>>
    /\ UNCHANGED <<client, gateway, webhookEvents, now, creating, polling, issued, sweep>>

\* Second step: handleTransactionEvent runs on the payload and the route
\* answers.  Nothing in the handler throws over MemStorage.
WebhookProcess ==
    /\ receiving # <<>>
    /\ LET done == HandleTransactionEvent(transactions, subscriptions,
                       receiving[1].transactionId, receiving[1].status, now)
       IN  /\ transactions' = done.transactions
           /\ subscriptions' = done.subscriptions
    /\ receiving' = <<>>
    /\ response' = Response("webhook", 200, TRUE)
    /\ UNCHANGED <<client, gateway, webhookEvents, now, creating, polling, issued, sweep>>

\* A body without data: payload.data.unic_id throws while the event to store
\* is built; nothing is stored, the route's catch answers 500.
WebhookReceiveNoData ==
    /\ Idle
    /\ response' = Response("webhook", 500, FALSE)
    /\ UNCHANGED <<client, gateway, transactions, subscriptions, webhookEvents, now, creating,
                   polling, issued, sweep, receiving>>

---------------------------------------------------------------------------
(* The process dies and is started again.  The storage is the MemStorage   *)
(* object of the process: the new process constructs it anew and its       *)
(* startup timer is set again.  The gateway and the clock go on.           *)

Crash ==
    /\ transactions' = <<>>
    /\ subscriptions' = <<>>
    /\ webhookEvents' = <<>>
    /\ creating' = {}
    /\ polling' = {}
    /\ sweep' = [started |-> FALSE, todo |-> <<>>]
    /\ receiving' = <<>>
    /\ response' = NoResponse
    /\ UNCHANGED <<client, gateway, now, issued>>

---------------------------------------------------------------------------
(* GET /api/transactions/:unicId/status *)

\* The request arrives and the gateway is asked; its reply is on its way.
PollRequest(unicId, reply) ==
    /\ Idle
    /\ Awaiting < MaxInflight
    /\ polling' = polling \cup {[unicId |-> unicId, reply |-> reply]}
    /\ response' = NoResponse
    /\ UNCHANGED <<client, gateway, receiving,
                   transactions, subscriptions, webhookEvents, now, creating,
                   issued, sweep>>

\* The reply's write dropped when a webhook has been stored since the store
\* was created: the status is returned and the update is lost.
PollReplyDroppedAfterWebhook(p) ==
    /\ Idle
    /\ p \in polling
    /\ polling' = polling \ {p}
    /\ IF p.reply.kind = "error"
       THEN /\ response' = Response("status", 500, FALSE)
            /\ UNCHANGED transactions
       ELSE /\ transactions' =
                 IF webhookEvents # <<>>
                 THEN transactions
                 ELSE UpdateTransactionStatus(transactions, p.unicId,
                          CheckTransactionStatus(p.reply)).transactions
            /\ response' =
                 [Response("status", 200, TRUE) EXCEPT
                     !.status = CheckTransactionStatus(p.reply)]
    /\ UNCHANGED <<client, gateway, receiving,
                   subscriptions, webhookEvents, now, creating, issued, sweep>>

\* The reply arrives: the status is written to the store and returned.
PollReply(p) ==
    /\ Idle
    /\ p \in polling
    /\ polling' = polling \ {p}
    /\ IF p.reply.kind = "error"
       THEN /\ response' = Response("status", 500, FALSE)
            /\ UNCHANGED transactions
       ELSE /\ transactions' =
                 UpdateTransactionStatus(transactions, p.unicId,
                     CheckTransactionStatus(p.reply)).transactions
            /\ response' =
                 [Response("status", 200, TRUE) EXCEPT
                     !.status = CheckTransactionStatus(p.reply)]
    /\ UNCHANGED <<client, gateway, receiving,
                   subscriptions, webhookEvents, now, creating, issued, sweep>>

---------------------------------------------------------------------------
(* POST /api/transactions/:unicId/refund.  What the handler writes does    *)
(* not depend on what it read before awaiting the gateway: one step.       *)

\* The refund route writing "refunded" over "paid" alone
RefundOnlyPaid(unicId, reply) ==
    /\ Idle
    /\ IF reply = "error"
       THEN /\ response' = Response("refund", 500, FALSE)
            /\ UNCHANGED transactions
       ELSE /\ transactions' =
                 [i \in DOMAIN transactions |->
                     IF /\ reply = "success"
                        /\ transactions[i].unicId = unicId
                        /\ transactions[i].status = "paid"
                     THEN [transactions[i] EXCEPT !.status = "refunded"]
                     ELSE transactions[i]]
            /\ response' = Response("refund", 200, reply = "success")
    /\ UNCHANGED <<client, gateway, receiving,
                   subscriptions, webhookEvents, now, creating, polling,
                   issued, sweep>>

\* The refund route writing "refunded" whenever the gateway answered, also
\* when its answer is that the refund was not done
RefundIgnoringOutcome(unicId, reply) ==
    /\ Idle
    /\ IF reply = "error"
       THEN /\ response' = Response("refund", 500, FALSE)
            /\ UNCHANGED transactions
       ELSE /\ transactions' =
                 UpdateTransactionStatus(transactions, unicId,
                                         "refunded").transactions
            /\ response' = Response("refund", 200, reply = "success")
    /\ UNCHANGED <<client, gateway, receiving,
                   subscriptions, webhookEvents, now, creating, polling,
                   issued, sweep>>

\* The refund route cancelling, with a refund done, the subscriptions that
\* were created from the refunded transaction
RefundCancellingSubscriptions(unicId, reply) ==
    /\ Idle
    /\ IF reply = "error"
       THEN /\ response' = Response("refund", 500, FALSE)
            /\ UNCHANGED <<transactions, subscriptions>>
       ELSE /\ transactions' =
                 IF reply = "success"
                 THEN UpdateTransactionStatus(transactions, unicId,
                                              "refunded").transactions
                 ELSE transactions
            /\ subscriptions' =
                 LET i == GetTransactionByUnicId(transactions, unicId)
                 IN  [k \in DOMAIN subscriptions |->
                         IF /\ reply = "success"
                            /\ i # 0
                            /\ subscriptions[k].transactionId = transactions[i].id
                         THEN [subscriptions[k] EXCEPT !.status = "cancelled"]
                         ELSE subscriptions[k]]
            /\ response' = Response("refund", 200, reply = "success")
    /\ UNCHANGED <<client, gateway, receiving,
                   webhookEvents, now, creating, polling, issued, sweep>>

Refund(unicId, reply) ==
    /\ Idle
    /\ IF reply = "error"
       THEN /\ response' = Response("refund", 500, FALSE)
            /\ UNCHANGED transactions
       ELSE /\ transactions' =
                 IF reply = "success"
                 THEN UpdateTransactionStatus(transactions, unicId,
                                              "refunded").transactions
                 ELSE transactions
            /\ response' = Response("refund", 200, reply = "success")
    /\ UNCHANGED <<client, gateway, receiving,
                   subscriptions, webhookEvents, now, creating, polling,
                   issued, sweep>>

---------------------------------------------------------------------------
(* GET /api/subscriptions?userId= *)

GetSubscriptions(userId) ==
    /\ Idle
    /\ response' =
         [Response("subscriptions", 200, TRUE) EXCEPT
             !.userId = userId,
             !.data = GetUserActiveSubscription(subscriptions, userId, now)]
    /\ UNCHANGED <<client, gateway, receiving,
                   transactions, subscriptions, webhookEvents, now, creating,
                   polling, issued, sweep>>

---------------------------------------------------------------------------
(* SourcePayService.checkTransactionStatus, which no route calls: the      *)
(* response is what the call gives its caller, the status it returns or    *)
(* the error it throws.                                                    *)

SourcePayCheckStatus(reply) ==
    /\ Idle
    /\ response' =
         IF reply.kind = "error"
         THEN Response("sourcepay", 500, FALSE)
         ELSE [Response("sourcepay", 200, TRUE) EXCEPT
                  !.status = SourcePayCheckTransactionStatus(reply)]
    /\ UNCHANGED <<client, gateway, transactions, subscriptions, webhookEvents, now, creating,
                   polling, issued, sweep, receiving>>

---------------------------------------------------------------------------
(* SourcePayService.createTransaction, which no route calls: the response  *)
(* is what the call gives its caller, with the fetches made as its data.   *)

SourcePayCreate(reply, details) ==
    /\ Idle
    /\ response' =
         LET made == SourcePayCreateTransaction(reply, details)
         IN  IF made.returns
             THEN [Response("sourcepay.create", 200, TRUE) EXCEPT
                      !.qrCodeText = made.qrCode, !.data = made.fetches]
             ELSE [Response("sourcepay.create", 500, FALSE) EXCEPT
                      !.data = made.fetches]
    /\ UNCHANGED <<client, gateway, transactions, subscriptions,
                   webhookEvents, now, creating, polling, issued, sweep,
                   receiving>>

---------------------------------------------------------------------------
(* WebhookService.processUnprocessedEvents, run once, by the startup timer *)

SweepStart ==
    /\ ~sweep.started
    /\ receiving = <<>>
    /\ sweep' = [started |-> TRUE,
                 todo |-> GetUnprocessedWebhookEvents(webhookEvents)]
    /\ response' = NoResponse
    /\ UNCHANGED <<client, gateway, receiving,
                   transactions, subscriptions, webhookEvents, now, creating,
                   polling, issued>>

\* The loop leaving at the first event whose transaction is not found
SweepStepStoppingAtFailure ==
    /\ sweep.todo # <<>>
    /\ LET i == Head(sweep.todo)
           done == HandleTransactionEvent(transactions, subscriptions,
                       webhookEvents[i].transactionId, webhookEvents[i].status,
                       now)
       IN  /\ transactions' = done.transactions
           /\ subscriptions' = done.subscriptions
           /\ webhookEvents' =
                IF done.found THEN MarkWebhookEventProcessed(webhookEvents, i)
                ELSE webhookEvents
           /\ sweep' = [sweep EXCEPT
                           !.todo = IF done.found THEN Tail(sweep.todo)
                                    ELSE <<>>]
    /\ response' = NoResponse
    /\ UNCHANGED <<client, gateway, receiving, now, creating, polling, issued>>

\* One iteration of the loop: the event is replayed, then marked processed.
SweepStep ==
    /\ sweep.todo # <<>>
    /\ LET i == Head(sweep.todo)
           done == HandleTransactionEvent(transactions, subscriptions,
                       webhookEvents[i].transactionId, webhookEvents[i].status,
                       now)
       IN  /\ transactions' = done.transactions
           /\ subscriptions' = done.subscriptions
           /\ webhookEvents' = MarkWebhookEventProcessed(webhookEvents, i)
    /\ sweep' = [sweep EXCEPT !.todo = Tail(sweep.todo)]
    /\ response' = NoResponse
    /\ UNCHANGED <<client, gateway, receiving, now, creating, polling, issued>>

---------------------------------------------------------------------------
(* Time passes *)

\* The clock with an expiry job: as time passes, every transaction that is
\* still pending is written off as failed.
TickExpiringPending(t) ==
    /\ Idle
    /\ t > now
    /\ now' = t
    /\ transactions' =
         [i \in DOMAIN transactions |->
             IF transactions[i].status = "pending"
             THEN [transactions[i] EXCEPT !.status = "failed"]
             ELSE transactions[i]]
    /\ response' = NoResponse
    /\ UNCHANGED <<client, gateway, receiving, subscriptions, webhookEvents,
                   creating, polling, issued, sweep>>

Tick(t) ==
    /\ Idle
    /\ t > now
    /\ now' = t
    /\ response' = NoResponse
    /\ UNCHANGED <<client, gateway, receiving,
                   transactions, subscriptions, webhookEvents, creating,
                   polling, issued, sweep>>

---------------------------------------------------------------------------
(* IStorage.updateSubscriptionStatus: a storage operation no route calls *)

UpdateSubscriptionStatus(i, status) ==
    /\ Idle
    /\ i \in DOMAIN subscriptions
    /\ subscriptions[i].status # status
    /\ subscriptions' = StorageUpdateSubscriptionStatus(subscriptions, i, status)
    /\ response' = NoResponse
    /\ UNCHANGED <<client, gateway, receiving,
                   transactions, webhookEvents, now, creating, polling, issued,
                   sweep>>

---------------------------------------------------------------------------
(* The checkout modal of the browser: its step, its count-down, the        *)
(* transaction useCheckout holds, and the create request it has sent.      *)

\* A response the browser has not handled yet: it handles it before
\* anything else happens.
Undelivered == response.route \in {"create", "status"}

\* form.handleSubmit(onSubmit): the resolver keeps an invalid form on the
\* form step; a valid one shows the processing step and posts the form.
ClientSubmit(f) ==
    /\ ~Undelivered
    /\ client.step = "form"
    /\ client.request # "sent"
    /\ issued + Cardinality(creating) < MaxTx
    /\ client' = IF CheckoutFormValid(f)
                 THEN [client EXCEPT !.step = "payment", !.request = "sent"]
                 ELSE [client EXCEPT !.request = "invalid"]
    /\ response' = NoResponse
    /\ UNCHANGED <<gateway, receiving, transactions, subscriptions,
                   webhookEvents, now, creating, polling, issued, sweep>>

\* onSubmit after await createTransaction(data): the hook returns the
\* transaction of a success response and null for everything else, and
\* onSubmit changes the step only for a transaction.
ClientCreateAnswered ==
    /\ response.route = "create"
    /\ client.request = "sent"
    /\ client' = IF response.success
                 THEN [client EXCEPT !.step = "pix", !.request = "created",
                                     !.unicId = response.unicId]
                 ELSE [client EXCEPT !.request = "failed"]
    /\ response' = NoResponse
    /\ UNCHANGED <<gateway, receiving, transactions, subscriptions,
                   webhookEvents, now, creating, polling, issued, sweep>>

\* The polling interval's callback after await checkPaymentStatus(unicId)
ClientStatusAnswered ==
    /\ response.route = "status"
    /\ client' =
         IF response.success /\ response.status = "paid"
         THEN [client EXCEPT !.step = "success"]
         ELSE IF response.success /\ response.status \in {"failed", "cancelled"}
         THEN [client EXCEPT !.step = "error"]
         ELSE client
    /\ response' = NoResponse
    /\ UNCHANGED <<gateway, receiving, transactions, subscriptions,
                   webhookEvents, now, creating, polling, issued, sweep>>

\* The count-down interval: one tick less, and the error step at zero
ClientCountdown ==
    /\ ~Undelivered
    /\ client.step = "pix"
    /\ client.timer > 0
    /\ client' = IF client.timer <= 1
                 THEN [client EXCEPT !.timer = 0, !.step = "error"]
                 ELSE [client EXCEPT !.timer = client.timer - 1]
    /\ response' = NoResponse
    /\ UNCHANGED <<gateway, receiving, transactions, subscriptions,
                   webhookEvents, now, creating, polling, issued, sweep>>

\* The error step's button "Tentar Novamente"
ClientTryAgain ==
    /\ ~Undelivered
    /\ client.step = "error"
    /\ client' = [client EXCEPT !.step = "form", !.request = "none"]
    /\ response' = NoResponse
    /\ UNCHANGED <<gateway, receiving, transactions, subscriptions,
                   webhookEvents, now, creating, polling, issued, sweep>>

\* handleClose, and the modal opened again
ClientClose ==
    /\ ~Undelivered
    /\ client.request # "sent"
    /\ client.step # "form"
    /\ client' = [client EXCEPT !.step = "form", !.timer = PaymentTicks,
                                !.request = "none"]
    /\ response' = NoResponse
    /\ UNCHANGED <<gateway, receiving, transactions, subscriptions,
                   webhookEvents, now, creating, polling, issued, sweep>>

---------------------------------------------------------------------------
(* The gateway's own record of a transaction: pending until the payer      *)
(* pays or the charge fails, and then settled for good.                    *)

SettledStatuses == {"paid", "failed"}

GatewaySettle(unicId, status) ==
    /\ Idle
    /\ unicId <= issued
    /\ gateway[unicId] = "pending"
    /\ gateway' = [gateway EXCEPT ![unicId] = status]
    /\ response' = NoResponse
    /\ UNCHANGED <<client, receiving, transactions, subscriptions,
                   webhookEvents, now, creating, polling, issued, sweep>>

\* What GET /transactions/list/ answers for a transaction of the gateway
GatewayReply(unicId) == [kind |-> "listed", status |-> gateway[unicId]]

---------------------------------------------------------------------------
(* Spec: status reconciliation.  Checkout, webhooks, polls, refunds and    *)
(* the startup sweep, for transactions with and without a user, over the   *)
(* statuses pending, paid, failed (and refunded, by refund); the clock     *)
(* stands still.                                                           *)

ValidForm == Form(9, TRUE, 11, 11, TRUE, "premium", 2990)

CreatedReply ==
    [fetch |-> "replied", ok |-> TRUE, success |-> TRUE, qrcode |-> "pix"]

MainStatuses == {"pending", "paid", "failed"}

MainPollReplies == {r \in PollReplies : r.kind = "listed" => r.status \in MainStatuses}

Next ==
    \/ CreateRequest(ValidForm)
    \/ CreateReply(ValidForm, CreatedReply)
    \/ \E t \in {u \in UserTransactions : u.plan = "premium"} :
           CreateUserTransaction(t)
    \/ \E unicId \in UnicIds, status \in MainStatuses :
           WebhookReceive(unicId, status)
    \/ \E unicId \in UnicIds, reply \in MainPollReplies :
           PollRequest(unicId, reply)
    \/ \E p \in polling : PollReply(p)
    \/ \E unicId \in UnicIds, reply \in RefundReplies : Refund(unicId, reply)
    \/ SweepStart
    \/ SweepStep

Spec == Init /\ [][Next]_vars

---------------------------------------------------------------------------
(* SpecCheckout: the create route under every form and every reply of the  *)
(* gateway, and the status polls of the client that follow a checkout.     *)

CheckoutPollReplies ==
    {r \in PollReplies : r.kind = "error" \/ r.status = "paid"}

NextCheckout ==
    \/ \E f \in Forms : CreateRequest(f)
    \/ \E f \in Forms, reply \in CreateReplies : CreateReply(f, reply)
    \/ \E unicId \in UnicIds, reply \in CheckoutPollReplies :
           PollRequest(unicId, reply)
    \/ \E p \in polling : PollReply(p)

SpecCheckout == Init /\ [][NextCheckout]_vars

---------------------------------------------------------------------------
(* SpecActivation: one transaction of a user, of any plan, and the status  *)
(* updates paid, failed and cancelled that reach it by webhook, by replay  *)
(* and by poll, at every instant of the clock.                             *)

ActivationStatuses == {"paid", "failed", "cancelled"}

NextActivation ==
    \/ \E t \in UserTransactions :
           transactions = <<>> /\ CreateUserTransaction(t)
    \/ \E status \in ActivationStatuses : WebhookReceive(1, status)
    \/ \E status \in ActivationStatuses :
           PollRequest(1, [kind |-> "listed", status |-> status])
    \/ \E p \in polling : PollReply(p)
    \/ SweepStart
    \/ SweepStep
    \/ \E t \in Instants : Tick(t)

SpecActivation == Init /\ [][NextActivation]_vars

---------------------------------------------------------------------------
(* SpecQuery: the subscriptions of two users, created by paid webhooks at  *)
(* different instants, changed by the storage's status update, and queried *)
(* as time passes.                                                         *)

SubscriptionStatuses == {"active", "expired", "cancelled"}

NextQuery ==
    \/ \E t \in {u \in UserTransactions : u.plan \in {"premium", "basic"}} :
           CreateUserTransaction(t)
    \/ \E unicId \in UnicIds : WebhookReceive(unicId, "paid")
    \/ \E i \in 1..(2 * MaxEvents), status \in SubscriptionStatuses :
           UpdateSubscriptionStatus(i, status)
    \/ \E userId \in Users : GetSubscriptions(userId)
    \/ \E t \in Instants : Tick(t)

SpecQuery == Init /\ [][NextQuery]_vars

---------------------------------------------------------------------------
(* SpecRefund: refunds of transactions in every status.  A transaction     *)
(* becomes paid, failed or cancelled by webhook and refunded by refund.    *)

NextRefund ==
    \/ \E t \in {u \in UserTransactions : u.plan = "premium"} :
           CreateUserTransaction(t)
    \/ \E unicId \in UnicIds, status \in ActivationStatuses :
           WebhookReceive(unicId, status)
    \/ \E unicId \in UnicIds, reply \in RefundReplies : Refund(unicId, reply)

SpecRefund == Init /\ [][NextRefund]_vars

---------------------------------------------------------------------------
(* SpecUnknown: status updates (webhook, replay, poll, refund) for gateway *)
(* ids with and without a stored transaction, all carrying "paid" but the  *)
(* refund.                                                                 *)

UnknownPollReply == [kind |-> "listed", status |-> "paid"]

NextUnknown ==
    \/ \E t \in {u \in UserTransactions : u.plan = "premium"} :
           CreateUserTransaction(t)
    \/ \E unicId \in UnicIds : WebhookReceive(unicId, "paid")
    \/ \E unicId \in UnicIds : PollRequest(unicId, UnknownPollReply)
    \/ \E p \in polling : PollReply(p)
    \/ \E unicId \in UnicIds : Refund(unicId, "success")
    \/ SweepStart
    \/ SweepStep

SpecUnknown == Init /\ [][NextUnknown]_vars

---------------------------------------------------------------------------
(* SpecCrash: webhook receipt in its two steps, the startup sweep, and the *)
(* process dying and starting again at any moment.                         *)

CrashStatuses == {"paid", "failed"}

NextCrash ==
    \/ \E t \in {u \in UserTransactions : u.plan = "premium"} :
           CreateUserTransaction(t)
    \/ \E unicId \in UnicIds, status \in CrashStatuses :
           WebhookPersist(unicId, status)
    \/ WebhookProcess
    \/ WebhookReceiveNoData
    \/ SweepStart
    \/ SweepStep
    \/ Crash

SpecCrash == Init /\ [][NextCrash]_vars

---------------------------------------------------------------------------
(* SpecLookup: the status lookup of both gateway clients under every reply *)
(* of the gateway, BullsPay's through the status route.                    *)

NextLookup ==
    \/ \E t \in {u \in UserTransactions : u.plan = "premium"} :
           CreateUserTransaction(t)
    \/ \E unicId \in UnicIds, reply \in PollReplies :
           PollRequest(unicId, reply)
    \/ \E p \in polling : PollReply(p)
    \/ \E reply \in SourcePayReplies : SourcePayCheckStatus(reply)

SpecLookup == Init /\ [][NextLookup]_vars

---------------------------------------------------------------------------
(* SpecClient: one browser going through the checkout modal (submit, the   *)
(* code, the count-down, polls, try again, close) against the server,      *)
(* while webhooks for its transaction arrive and time passes.  The browser *)
(* handles a response before anything else happens.                        *)

ClientForms == {ValidForm, Form(1, TRUE, 11, 11, TRUE, "premium", 2990)}

ClientCreateReplies ==
    {CreatedReply,
     [fetch |-> "rejected", ok |-> FALSE, success |-> FALSE, qrcode |-> ""]}

ClientPollReplies ==
    {[kind |-> "error", status |-> ""]}
    \cup [kind : {"listed"}, status : {"pending", "paid", "failed"}]

NextClient ==
    \/ \E f \in ClientForms : ClientSubmit(f)
    \/ /\ ~Undelivered
       /\ client.request = "sent"
       /\ creating = {}
       /\ CreateRequest(ValidForm)
    \/ \E reply \in ClientCreateReplies :
           ~Undelivered /\ CreateReply(ValidForm, reply)
    \/ ClientCreateAnswered
    \/ \E reply \in ClientPollReplies :
           /\ ~Undelivered
           /\ client.step = "pix"
           /\ PollRequest(client.unicId, reply)
    \/ \E p \in polling : ~Undelivered /\ PollReply(p)
    \/ ClientStatusAnswered
    \/ ClientCountdown
    \/ ClientTryAgain
    \/ ClientClose
    \/ /\ ~Undelivered
       /\ client.unicId # 0
       /\ WebhookReceive(client.unicId, "paid")
    \/ ~Undelivered /\ Tick(MakeDay(2024, 1, 29))

SpecClient == Init /\ [][NextClient]_vars

---------------------------------------------------------------------------
(* SpecPolling: transactions whose webhook never arrives.  The gateway     *)
(* settles them; status polls, answered with what the gateway holds or     *)
(* failing, are the only updates.  Fairness: every transaction is polled   *)
(* again and again with the gateway answering, and the reply to each poll  *)
(* arrives.                                                                *)

NextPolling ==
    \/ \E t \in {u \in UserTransactions : u.plan = "premium"} :
           CreateUserTransaction(t)
    \/ \E unicId \in UnicIds, status \in SettledStatuses :
           GatewaySettle(unicId, status)
    \/ \E unicId \in UnicIds : PollRequest(unicId, GatewayReply(unicId))
    \/ \E unicId \in UnicIds :
           PollRequest(unicId, [kind |-> "error", status |-> ""])
    \/ \E p \in polling : PollReply(p)

FairPolling ==
    /\ \A unicId \in UnicIds :
           SF_vars(PollRequest(unicId, GatewayReply(unicId)))
    /\ \A p \in [unicId : UnicIds, reply : PollReplies] :
           WF_vars(PollReply(p))

SpecPolling == Init /\ [][NextPolling]_vars /\ FairPolling

---------------------------------------------------------------------------
(* SpecOwner: transactions stored by the checkout route (no user) next to  *)
(* transactions of a user, settled by webhooks and by the startup sweep.   *)

NextOwner ==
    \/ CreateRequest(ValidForm)
    \/ CreateReply(ValidForm, CreatedReply)
    \/ \E t \in {u \in UserTransactions : u.plan = "premium"} :
           CreateUserTransaction(t)
    \/ \E unicId \in UnicIds, status \in SettledStatuses :
           WebhookReceive(unicId, status)
    \/ SweepStart
    \/ SweepStep

SpecOwner == Init /\ [][NextOwner]_vars

---------------------------------------------------------------------------
(* SpecRace: webhooks that race the checkout.  A webhook may arrive for an *)
(* id the gateway has created while the create request that stores it is   *)
(* still awaiting the gateway.  Fairness: every create request is          *)
(* answered, the sweep's timer fires, and the sweep runs to its end.        *)

NextRace ==
    \/ CreateRequest(ValidForm)
    \/ CreateReply(ValidForm, CreatedReply)
    \/ \E unicId \in UnicIds, status \in SettledStatuses :
           /\ unicId <= issued + Cardinality(creating)
           /\ WebhookReceive(unicId, status)
    \/ SweepStart
    \/ SweepStep

FairRace ==
    /\ WF_vars(CreateReply(ValidForm, CreatedReply))
    /\ WF_vars(SweepStart)
    /\ WF_vars(SweepStep)

SpecRace == Init /\ [][NextRace]_vars /\ FairRace

---------------------------------------------------------------------------
(* SpecSourcePay: the SourcePay client next to a store of transactions:    *)
(* its creation of a transaction under every reply to its two fetches,     *)
(* and its status lookup.                                                  *)

NextSourcePay ==
    \/ \E t \in UserTransactions : CreateUserTransaction(t)
    \/ \E reply \in SourcePayCreateReplies, details \in SourcePayDetailsReplies :
           SourcePayCreate(reply, details)
    \/ \E reply \in SourcePayReplies : SourcePayCheckStatus(reply)

SpecSourcePay == Init /\ [][NextSourcePay]_vars

---------------------------------------------------------------------------
(* Properties *)

SubscriptionsOf(txId) ==
    {k \in DOMAIN subscriptions : subscriptions[k].transactionId = txId}

\* C1: in every reachable state at most one subscription references any
\* given transaction, also after the same status was applied to it twice.
C1_AtMostOneSubscriptionPerTransaction ==
    \A i \in DOMAIN transactions :
        Cardinality(SubscriptionsOf(transactions[i].id)) <= 1

\* C2: a poll reply carrying "pending" that is applied to a transaction
\* whose stored status is already "paid" leaves the stored status "paid".
C2_StalePendingKeepsPaid ==
    [][\A p \in polling :
          LET i == GetTransactionByUnicId(transactions, p.unicId)
          IN  (/\ PollReply(p)
               /\ p.reply.kind # "error"
               /\ CheckTransactionStatus(p.reply) = "pending"
               /\ i # 0
               /\ transactions[i].status = "paid")
              => transactions'[i].status = "paid"]_vars

\* The lattice pending < {paid, failed, cancelled} < refunded
Rank(status) ==
    CASE status = "pending" -> 0
      [] status \in {"paid", "failed", "cancelled"} -> 1
      [] OTHER -> 2

Forward(old, new) == old = new \/ Rank(old) < Rank(new)

\* C3: in every step, the stored status of every transaction stays as it
\* is or moves forward in the lattice pending < {paid, failed, cancelled}
\* < refunded.
C3_StatusOnlyMovesForward ==
    [][\A i \in DOMAIN transactions :
          Forward(transactions[i].status, transactions'[i].status)]_vars

\* One month after start: later by the length of the month start is in
MonthLater(start, end) ==
    end - start = DaysInMonth(GetFullYear(start), GetMonth(start))

\* One year after start: in the next calendar year, 365 or 366 days later
YearLater(start, end) ==
    /\ GetFullYear(end) = GetFullYear(start) + 1
    /\ end - start \in {365, 366}

\* The step applies the status to transaction 1 through the handler: a
\* webhook is received, or the sweep replays an event.
HandlerApplies(status) ==
    \/ WebhookReceive(1, status)
    \/ /\ SweepStep
       /\ webhookEvents[Head(sweep.todo)].transactionId = 1
       /\ webhookEvents[Head(sweep.todo)].status = status

\* What C4 says of a subscription of transaction tx
Activated(sub, tx) ==
    /\ sub.userId = tx.userId
    /\ sub.status = "active"
    /\ sub.startDate < sub.endDate
    /\ IF tx.plan = "annual"
       THEN YearLater(sub.startDate, sub.endDate)
       ELSE MonthLater(sub.startDate, sub.endDate)

\* C4: after every step in which the stored status of a transaction that
\* has a user becomes "paid", exactly one subscription references that
\* transaction; it is active, starts before it ends, and ends one year
\* after its start when the plan is "annual", one month after it for every
\* other plan.
C4_PaidYieldsExactlyOneSubscription ==
    [][\A i \in DOMAIN transactions :
          (/\ transactions[i].userId # NoUser
           /\ transactions[i].status # "paid"
           /\ transactions'[i].status = "paid")
          => LET its == {k \in DOMAIN subscriptions' :
                           subscriptions'[k].transactionId = transactions[i].id}
             IN  /\ Cardinality(its) = 1
                 /\ \A k \in its : Activated(subscriptions'[k], transactions[i])
      ]_vars

\* What holds of C4: when the webhook handler applies "paid" to a stored
\* transaction that has a user, exactly one subscription is added, of that
\* transaction, starting now and as C4 has it.
HandlerPaidAddsOneSubscription ==
    [][(HandlerApplies("paid") /\ transactions # <<>>
            /\ transactions[1].userId # NoUser)
        => /\ Len(subscriptions') = Len(subscriptions) + 1
           /\ SubSeq(subscriptions', 1, Len(subscriptions)) = subscriptions
           /\ LET tx == transactions[1]
                  sub == subscriptions'[Len(subscriptions')]
              IN  /\ sub.transactionId = tx.id
                  /\ sub.plan = tx.plan
                  /\ sub.startDate = now
                  /\ Activated(sub, tx)]_vars

\* C5: a step that applies "failed" or "cancelled" to a transaction (by
\* webhook, by replay or by poll), and any step in which a stored status
\* becomes "failed" or "cancelled", leaves the subscriptions as they were.
C5_FailedCreatesNoSubscription ==
    [][(\/ \E status \in {"failed", "cancelled"} : HandlerApplies(status)
        \/ \E p \in polling :
              PollReply(p) /\ p.reply.status \in {"failed", "cancelled"}
        \/ \E i \in DOMAIN transactions :
              /\ transactions'[i].status \in {"failed", "cancelled"}
              /\ transactions'[i].status # transactions[i].status)
       => subscriptions' = subscriptions]_vars

\* C5 witness: a webhook has just cancelled a transaction of a user that
\* already had a subscription.
C5_Witness ==
    /\ response.route = "webhook"
    /\ transactions # <<>>
    /\ transactions[1].status = "cancelled"
    /\ webhookEvents[Len(webhookEvents)].status = "cancelled"
    /\ Len(subscriptions) = 1

\* C6: a poll reply that brings status S to a stored transaction leaves the
\* stored transactions and the subscriptions as the webhook handler leaves
\* them for S.
C6_PollAppliesHandlerRules ==
    [][\A p \in polling :
          (/\ PollReply(p)
           /\ p.reply.kind # "error"
           /\ GetTransactionByUnicId(transactions, p.unicId) # 0)
          => LET done == HandleTransactionEvent(transactions, subscriptions,
                             p.unicId, CheckTransactionStatus(p.reply), now)
             IN  /\ transactions' = done.transactions
                 /\ subscriptions' = done.subscriptions]_vars

\* C7: the event the sweep replays ends processed if and only if its
\* transaction was found (nothing else can fail in the in-memory store).
C7_ProcessedIffTransitionSucceeded ==
    [][SweepStep =>
          LET i == Head(sweep.todo)
          IN  webhookEvents'[i].processed <=>
                  GetTransactionByUnicId(transactions,
                      webhookEvents[i].transactionId) # 0]_vars

\* C8: the subscription the query returns for a user is of that user, has
\* status active and ends strictly after the instant of the query.
C8_ActiveQueryNeverReturnsExpired ==
    (response.route = "subscriptions" /\ response.data # <<>>)
    => LET sub == response.data[1]
       IN  /\ sub.userId = response.userId
           /\ sub.status = "active"
           /\ sub.endDate > now

\* C8 witness: the query has just returned nothing for a user who has a
\* subscription whose status is active and whose end date has come, while
\* another user has a subscription too.
C8_Witness ==
    /\ response.route = "subscriptions"
    /\ response.data = <<>>
    /\ \E k \in DOMAIN subscriptions :
          /\ subscriptions[k].userId = response.userId
          /\ subscriptions[k].status = "active"
          /\ subscriptions[k].endDate <= now
    /\ \E k \in DOMAIN subscriptions :
          subscriptions[k].userId # response.userId

\* A checkout form as section 4.3 of the specification has it valid
FormAccepted(f) ==
    /\ f.nameLen >= 2
    /\ f.emailOk
    /\ f.documentLen = 11
    /\ f.phoneLen >= 10
    /\ f.complete

\* The gateway's create call succeeded
GatewayCreated(reply) == reply.fetch = "replied" /\ reply.ok /\ reply.success

\* What C9 says of the step that handles the gateway's reply, the payment
\* code left aside.
CheckoutStored(f) ==
    /\ Len(transactions') = Len(transactions) + 1
    /\ SubSeq(transactions', 1, Len(transactions)) = transactions
    /\ LET tx == transactions'[Len(transactions')]
       IN  /\ tx.status = "pending"
           /\ tx.unicId = issued'
           /\ tx.amount = f.price
           /\ Cardinality({i \in DOMAIN transactions' :
                              transactions'[i].unicId = tx.unicId}) = 1
           /\ response'.success
           /\ response'.unicId = tx.unicId
           /\ response'.status = "pending"
           /\ response'.qrCodeText = tx.qrCodeText

\* C9 as stated: for a valid form and a successful gateway create call,
\* exactly one transaction is stored, pending, with the gateway's id, a
\* non-empty payment code and the submitted price; the response returns
\* that id, pending and the payment code.
C9_CheckoutStoresNonEmptyCode ==
    [][\A f \in Forms, reply \in CreateReplies :
          (CreateReply(f, reply) /\ FormAccepted(f) /\ GatewayCreated(reply))
          => /\ CheckoutStored(f)
             /\ transactions'[Len(transactions')].qrCodeText # ""]_vars

\* What holds of C9: the same, the payment code being the code of the
\* gateway's reply, empty when the gateway sent none.
CheckoutStoresGatewayCode ==
    [][\A f \in Forms, reply \in CreateReplies :
          (CreateReply(f, reply) /\ FormAccepted(f) /\ GatewayCreated(reply))
          => /\ CheckoutStored(f)
             /\ transactions'[Len(transactions')].qrCodeText = reply.qrcode]_vars

\* C10: a create request with an invalid form sends nothing to the gateway,
\* stores nothing and is answered with a failure; a gateway reply that is
\* a transport error or a non-success response stores nothing and is
\* answered with a failure.
C10_CreateNeverPartiallyPersists ==
    [][/\ \A f \in Forms :
             (CreateRequest(f) /\ ~FormAccepted(f))
             => /\ creating' = creating
                /\ transactions' = transactions
                /\ response'.route = "create"
                /\ ~response'.success
       /\ \A f \in Forms, reply \in CreateReplies :
             (CreateReply(f, reply) /\ ~GatewayCreated(reply))
             => /\ transactions' = transactions
                /\ issued' = issued
                /\ response'.route = "create"
                /\ ~response'.success]_vars

\* C10 witness: a create request has just failed while an earlier checkout
\* is stored and no request is with the gateway.
C10_Witness ==
    /\ response.route = "create"
    /\ ~response.success
    /\ response.code = 400
    /\ Len(transactions) = 1
    /\ creating = {}

\* No stored transaction has the gateway id
NotStored(unicId) ==
    \A i \in DOMAIN transactions : transactions[i].unicId # unicId

\* The step is a status update that names the gateway id: a webhook, the
\* replay of an event, the reply to a poll or a refund.
UpdateNaming(unicId) ==
    \/ \E status \in WireStatuses : WebhookReceive(unicId, status)
    \/ /\ SweepStep
       /\ webhookEvents[Head(sweep.todo)].transactionId = unicId
    \/ \E p \in polling : p.unicId = unicId /\ PollReply(p)
    \/ \E reply \in RefundReplies : Refund(unicId, reply)

\* C11: a status update (webhook, replayed event, poll or refund) that
\* names a gateway id with no stored transaction leaves the stored
\* transactions and the subscriptions exactly as they were.
C11_UnknownIdChangesNothing ==
    [][\A unicId \in UnicIds :
          (NotStored(unicId) /\ UpdateNaming(unicId))
          => /\ transactions' = transactions
             /\ subscriptions' = subscriptions]_vars

\* C11 witness: the gateway has just refunded an id that is not stored,
\* after a webhook for that id was received, while the one stored
\* transaction is still paid and has its subscription.
C11_Witness ==
    /\ response.route = "refund"
    /\ response.success
    /\ Len(transactions) = 1
    /\ transactions[1].status = "paid"
    /\ Len(subscriptions) = 1
    /\ \E k \in DOMAIN webhookEvents : NotStored(webhookEvents[k].transactionId)

\* C12: in every step in which the stored status of a transaction becomes
\* "refunded", its status before the step was "paid".
C12_RefundedOnlyFromPaid ==
    [][\A i \in DOMAIN transactions :
          (/\ transactions[i].status # "refunded"
           /\ transactions'[i].status = "refunded")
          => transactions[i].status = "paid"]_vars

\* C13: once the stored status of a transaction is "refunded", no step
\* changes its status or adds a subscription that references it.
C13_RefundedIsTerminal ==
    [][\A i \in DOMAIN transactions :
          transactions[i].status = "refunded"
          => /\ transactions'[i].status = "refunded"
             /\ \A k \in DOMAIN subscriptions' :
                   subscriptions'[k].transactionId = transactions[i].id
                   => k \in DOMAIN subscriptions]_vars

\* C14: when the gateway reports the refund of a stored transaction as
\* done, the stored status of that transaction becomes "refunded" whatever
\* it was, every other transaction stays as it is, and the response says
\* success.
C14_RefundSuccessWritesRefunded ==
    [][\A unicId \in UnicIds :
          (Refund(unicId, "success") /\ ~NotStored(unicId))
          => /\ response'.success
             /\ \A i \in DOMAIN transactions :
                   IF transactions[i].unicId = unicId
                   THEN transactions'[i] =
                            [transactions[i] EXCEPT !.status = "refunded"]
                   ELSE transactions'[i] = transactions[i]]_vars

\* C14 witness: a refund has just succeeded for a transaction that every
\* webhook received had cancelled, and that is now refunded.
C14_Witness ==
    /\ response.route = "refund"
    /\ response.success
    /\ Len(transactions) = 1
    /\ transactions[1].status = "refunded"
    /\ webhookEvents # <<>>
    /\ \A k \in DOMAIN webhookEvents :
          /\ webhookEvents[k].transactionId = transactions[1].unicId
          /\ webhookEvents[k].status = "cancelled"

\* The event row of a payload, as the receive stores it
ReceivedEvent(unicId, status) ==
    [transactionId |-> unicId, status |-> status, processed |-> FALSE]

\* C15: the first step of every receive adds exactly one event row, the
\* payload's, with processed = false, also when a row with the same payload
\* is stored already, and changes no transaction and no subscription; the
\* second step, which changes the status, finds that row stored and adds
\* none.
C15_ReceivePersistsFirst ==
    [][/\ \A unicId \in UnicIds, status \in WireStatuses :
             WebhookPersist(unicId, status)
             => /\ webhookEvents' =
                     Append(webhookEvents, ReceivedEvent(unicId, status))
                /\ transactions' = transactions
                /\ subscriptions' = subscriptions
       /\ WebhookProcess
             => /\ webhookEvents' = webhookEvents
                /\ webhookEvents # <<>>
                /\ webhookEvents[Len(webhookEvents)] =
                     ReceivedEvent(receiving[1].transactionId,
                                   receiving[1].status)]_vars

\* C15 witness: the same payload was delivered twice and is stored in two
\* unprocessed rows; the second one is stored and its status not yet applied
\* to its transaction, which is still pending.
C15_Witness ==
    /\ Len(webhookEvents) = 2
    /\ webhookEvents[1] = webhookEvents[2]
    /\ ~webhookEvents[2].processed
    /\ receiving # <<>>
    /\ \E i \in DOMAIN transactions :
          /\ transactions[i].unicId = webhookEvents[2].transactionId
          /\ transactions[i].status = "pending"

\* C17: the webhook route answers success when it has handled a stored
\* event, also when the handler found no transaction to update, and it
\* answers 500 only in a step that stored no event.
C17_WebhookAnswersSuccessOnceRecorded ==
    [][/\ WebhookProcess
             => /\ response'.route = "webhook"
                /\ response'.success
                /\ response'.code = 200
       /\ (response'.route = "webhook" /\ response'.code = 500)
             => /\ receiving = <<>>
                /\ webhookEvents' = webhookEvents]_vars

\* C17 witness: the route has just answered success for an event that is
\* stored and whose transaction the handler did not find.
C17_Witness ==
    /\ response.route = "webhook"
    /\ response.success
    /\ receiving = <<>>
    /\ webhookEvents # <<>>
    /\ NotStored(webhookEvents[Len(webhookEvents)].transactionId)
    /\ transactions # <<>>

\* C18: the sweep starts with every unprocessed event to replay; each
\* iteration, whether the event's transaction is found or not, leaves all
\* the later events to replay, and when the transaction is found it has
\* the event's status afterwards and the event is marked processed; but for
\* the death of the process nothing else removes an event from the sweep.
C18_SweepContinuesPastFailure ==
    [][/\ SweepStart
             => \A i \in DOMAIN webhookEvents :
                   ~webhookEvents[i].processed
                   => \E k \in DOMAIN sweep'.todo : sweep'.todo[k] = i
       /\ SweepStep
             => LET i == Head(sweep.todo)
                    unicId == webhookEvents[i].transactionId
                IN  /\ sweep'.todo = Tail(sweep.todo)
                    /\ ~NotStored(unicId)
                          => /\ webhookEvents'[i].processed
                             /\ \A j \in DOMAIN transactions :
                                   transactions[j].unicId = unicId
                                   => transactions'[j].status =
                                          webhookEvents[i].status
       /\ (sweep.todo # <<>> /\ sweep'.todo # sweep.todo)
             => \/ sweep'.todo = Tail(sweep.todo)
                \/ Crash]_vars

\* C18 witness: the sweep is over; the first event it replayed names a
\* transaction that is not stored, the second one was replayed after it:
\* it is marked processed, its transaction is paid and has a subscription.
C18_Witness ==
    /\ sweep.started
    /\ sweep.todo = <<>>
    /\ Len(webhookEvents) = 2
    /\ NotStored(webhookEvents[1].transactionId)
    /\ webhookEvents[2].processed
    /\ webhookEvents[2].status = "paid"
    /\ \E j \in DOMAIN transactions :
          /\ transactions[j].unicId = webhookEvents[2].transactionId
          /\ transactions[j].status = "paid"
          /\ SubscriptionsOf(transactions[j].id) # {}

\* C19: an event that is stored and unprocessed when the process dies is
\* in the store of the restarted process, whose sweep takes every
\* unprocessed event of its store to replay.
C19_PersistedEventSurvivesCrash ==
    [][/\ Crash
             => \A i \in DOMAIN webhookEvents :
                   ~webhookEvents[i].processed
                   => /\ i \in DOMAIN webhookEvents'
                      /\ webhookEvents'[i] = webhookEvents[i]
       /\ SweepStart
             => sweep'.todo = GetUnprocessedWebhookEvents(webhookEvents)]_vars

\* The statuses a lookup may return
LookupStatuses == {"pending", "paid", "failed", "cancelled"}

\* C20: the status a lookup returns, of either gateway client, is one of
\* pending, paid, failed, cancelled, and it is "paid" only if the gateway
\* said paid or approved.
C20_LookupReturnsNormalizedStatus ==
    [][/\ \A p \in polling :
             (PollReply(p) /\ p.reply.kind # "error")
             => /\ response'.status \in LookupStatuses
                /\ response'.status = "paid" => p.reply.status = "paid"
       /\ \A reply \in SourcePayReplies :
             (SourcePayCheckStatus(reply) /\ reply.kind # "error")
             => /\ response'.status \in LookupStatuses
                /\ response'.status = "paid"
                      => reply.status \in {"paid", "PAID", "approved"}]_vars

\* What holds of C20: SourcePay's lookup returns pending, paid or failed,
\* and paid only for paid and approved in any case of letters; BullsPay's
\* lookup returns the gateway's status as it is, and pending when the
\* gateway lists nothing.
LookupOfSourcePayIsNormalized ==
    [][/\ \A reply \in SourcePayReplies :
             (SourcePayCheckStatus(reply) /\ reply.kind # "error")
             => /\ response'.status \in {"pending", "paid", "failed"}
                /\ response'.status = "paid"
                      => reply.status \in {"paid", "PAID", "approved"}
       /\ \A p \in polling :
             (PollReply(p) /\ p.reply.kind # "error")
             => response'.status =
                    IF p.reply.kind = "listed" THEN p.reply.status
                    ELSE "pending"]_vars

CurrentSubscriptions(userId) ==
    {i \in DOMAIN subscriptions :
        /\ subscriptions[i].userId = userId
        /\ subscriptions[i].status = "active"
        /\ subscriptions[i].endDate > now}

\* C22: in every reachable state each user has at most one current
\* subscription (active, end date in the future), also after two
\* transactions of the same user were paid.
C22_AtMostOneCurrentSubscription ==
    \A userId \in Users : Cardinality(CurrentSubscriptions(userId)) <= 1

\* C23: the server never ends a pending transaction on its own.  A stored
\* transaction leaves the status pending only in a step that is a webhook,
\* the replay of an event, a poll reply or a refund naming it; the passing
\* of time changes no stored transaction, and the count-down of the modal,
\* also when it reaches zero, changes the browser's state alone.
C23_NoExpiryByServer ==
    [][/\ \A i \in DOMAIN transactions :
             (/\ transactions[i].status = "pending"
              /\ transactions'[i].status # "pending")
             => UpdateNaming(transactions[i].unicId)
       /\ (\E t \in Instants : Tick(t)) => transactions' = transactions
       /\ ClientCountdown
             => /\ transactions' = transactions
                /\ subscriptions' = subscriptions
                /\ webhookEvents' = webhookEvents]_vars

\* The count-down has reached zero and the modal shows the error step,
\* time has passed on the server, and the transaction of the modal is
\* still stored as pending.
C23_Witness ==
    /\ client.step = "error"
    /\ client.timer = 0
    /\ now > Min(Instants)
    /\ \E i \in DOMAIN transactions :
           /\ transactions[i].unicId = client.unicId
           /\ transactions[i].status = "pending"

\* C25: once a checkout has failed (the form rejected by validation, or the
\* create request answered with a failure), the modal is on a step that
\* offers another try, the form or the error step, and not on the
\* processing step.
C25_FailureOffersRetry ==
    client.request \in {"invalid", "failed"} => client.step \in {"form", "error"}

\* The stored status of the transaction with the gateway id ("" if none)
StoredStatus(unicId) ==
    IF GetTransactionByUnicId(transactions, unicId) = 0
    THEN ""
    ELSE transactions[GetTransactionByUnicId(transactions, unicId)].status

\* C24: when the gateway holds a settled status for a stored transaction
\* and no webhook for it arrives, then, the transaction being polled again
\* and again, its stored status eventually equals the gateway's.
C24_PollingReachesGatewayStatus ==
    \A unicId \in UnicIds :
        (StoredStatus(unicId) # "" /\ gateway[unicId] \in SettledStatuses)
        ~> (StoredStatus(unicId) = gateway[unicId])

\* A poll has just brought the status the gateway holds, failed, to the
\* store, and no webhook was ever received.
C24_Witness ==
    /\ response.route = "status"
    /\ response.success
    /\ webhookEvents = <<>>
    /\ \E unicId \in UnicIds :
           /\ gateway[unicId] = "failed"
           /\ StoredStatus(unicId) = "failed"

\* C26: on every store the program reaches, updateTransactionStatus called
\* a second time with the same gateway id and the same terminal status
\* returns the same transaction as the first call (one is returned whenever
\* the id is stored) and leaves the store, with the status, amount, user
\* and payment data of every record, as the first call left it.
C26_UpdateIsIdempotent ==
    \A unicId \in UnicIds, status \in KnownStatuses \ {"pending"} :
        LET once == UpdateTransactionStatus(transactions, unicId, status)
            twice == UpdateTransactionStatus(once.transactions, unicId, status)
        IN  /\ twice.transactions = once.transactions
            /\ twice.found = once.found
            /\ ~NotStored(unicId) => once.found # 0
            /\ once.found # 0 => once.transactions[once.found].status = status

\* The same status has reached a stored transaction twice, by two webhooks,
\* and the record holds it.
C26_Witness ==
    /\ Len(webhookEvents) = 2
    /\ webhookEvents[1] = webhookEvents[2]
    /\ webhookEvents[1].status = "paid"
    /\ StoredStatus(webhookEvents[1].transactionId) = "paid"

\* C28: a status update (no caller supplies a payment-data patch) changes
\* of the stored transactions only the status of the transaction it names:
\* that transaction keeps its id, gateway id, user, amount, plan and
\* payment data, every other transaction keeps every field, and no
\* transaction is added or removed.
C28_UpdateChangesStatusOnly ==
    [][\A unicId \in UnicIds :
          UpdateNaming(unicId)
          => /\ DOMAIN transactions' = DOMAIN transactions
             /\ \A i \in DOMAIN transactions :
                   /\ transactions'[i] =
                        [transactions[i] EXCEPT
                            !.status = transactions'[i].status]
                   /\ transactions[i].unicId # unicId
                        => transactions'[i] = transactions[i]]_vars

\* A paid webhook has just been applied to the second of two stored
\* transactions: it is paid, the first one is still pending.
C28_Witness ==
    /\ response.route = "webhook"
    /\ Len(transactions) = 2
    /\ transactions[1].status = "pending"
    /\ transactions[2].status = "paid"
    /\ transactions[2].qrCodeText = "pix"
    /\ webhookEvents[Len(webhookEvents)].transactionId = transactions[2].unicId

\* C27: no step removes a stored transaction or gives it another id: the
\* transactions stored before a step are stored after it under the same id
\* and gateway id, and a transaction a step adds has the status pending.
C27_TransactionsOnlyAdded ==
    [][/\ Len(transactions') >= Len(transactions)
       /\ \A i \in DOMAIN transactions :
             /\ transactions'[i].id = transactions[i].id
             /\ transactions'[i].unicId = transactions[i].unicId
       /\ \A i \in DOMAIN transactions' \ DOMAIN transactions :
             transactions'[i].status = "pending"]_vars

\* The checkout has just stored a second transaction, pending, while the
\* first one, which failed, is still stored.
C27_Witness ==
    /\ response.route = "create"
    /\ response.success
    /\ Len(transactions) = 2
    /\ transactions[1].status = "failed"
    /\ transactions[2].status = "pending"
    /\ transactions[2].id = response.transactionId

\* C29: in every reachable state the stored status of every transaction is
\* one of pending, paid, failed, cancelled, refunded.
C29_StoredStatusIsKnown ==
    \A i \in DOMAIN transactions : transactions[i].status \in KnownStatuses

\* C31: when the gateway's refund call returns false or fails, the refund
\* changes nothing in the store (no transaction, no subscription) and the
\* response reports the failure.
C31_FailedRefundChangesNothing ==
    [][\A unicId \in UnicIds, reply \in {"error", "failure"} :
          Refund(unicId, reply)
          => /\ transactions' = transactions
             /\ subscriptions' = subscriptions
             /\ webhookEvents' = webhookEvents
             /\ response'.route = "refund"
             /\ ~response'.success
             /\ response'.code = IF reply = "error" THEN 500 ELSE 200]_vars

\* A refund has just been answered as not done for a paid transaction that
\* has its subscription: the transaction is still paid.
C31_Witness ==
    /\ response.route = "refund"
    /\ ~response.success
    /\ response.code = 200
    /\ Len(transactions) = 1
    /\ transactions[1].status = "paid"
    /\ Len(subscriptions) = 1

\* C32: no subscription references a transaction that has no user (the
\* transactions of the checkout route have none, so none of them ever gets
\* a subscription, paid or not), and every stored subscription has a user
\* and references a stored transaction, that user's.
C32_SubscriptionsHaveUserAndTransaction ==
    /\ \A i \in DOMAIN transactions :
          transactions[i].userId = NoUser => SubscriptionsOf(transactions[i].id) = {}
    /\ \A k \in DOMAIN subscriptions :
          /\ subscriptions[k].userId \in Users
          /\ \E i \in DOMAIN transactions :
                /\ transactions[i].id = subscriptions[k].transactionId
                /\ transactions[i].userId = subscriptions[k].userId

\* A checkout transaction and a transaction of a user are both paid, by
\* webhook: the one subscription stored is the user's.
C32_Witness ==
    /\ response.route = "webhook"
    /\ Len(transactions) = 2
    /\ transactions[1].userId = NoUser
    /\ transactions[1].status = "paid"
    /\ transactions[2].userId = "u1"
    /\ transactions[2].status = "paid"
    /\ Len(subscriptions) = 1
    /\ subscriptions[1].transactionId = transactions[2].id

\* C33: after a webhook was received and applied to its transaction, its
\* event is not among the unprocessed events, the ones the sweep replays.
C33_AppliedEventLeavesUnprocessedSet ==
    [][\A unicId \in UnicIds, status \in WireStatuses :
          (WebhookReceive(unicId, status) /\ ~NotStored(unicId))
          => \A k \in DOMAIN webhookEvents' \ DOMAIN webhookEvents :
                 webhookEvents'[k].processed]_vars

\* A webhook event for the gateway id was stored
EventFor(unicId) ==
    \E k \in DOMAIN webhookEvents : webhookEvents[k].transactionId = unicId

\* C34: a webhook received for a gateway id before its transaction is
\* stored is not lost: once the transaction is stored, the status of an
\* event received for it is eventually its stored status.
C34_EarlyWebhookIsAppliedLater ==
    \A unicId \in UnicIds :
        (EventFor(unicId) /\ NotStored(unicId))
        ~> \E k \in DOMAIN webhookEvents :
               /\ webhookEvents[k].transactionId = unicId
               /\ webhookEvents[k].status = StoredStatus(unicId)

\* C35: a refund the gateway reports as done leaves every subscription as
\* it is: a subscription created from the refunded transaction keeps its
\* status, and the active-subscription query answers for every user what
\* it answered before.
C35_RefundLeavesSubscriptions ==
    [][\A unicId \in UnicIds :
          Refund(unicId, "success")
          => /\ subscriptions' = subscriptions
             /\ \A userId \in Users :
                   GetUserActiveSubscription(subscriptions', userId, now') =
                   GetUserActiveSubscription(subscriptions, userId, now)]_vars

\* A paid transaction of u1 has just been refunded: its subscription is
\* still active and is what the active-subscription query returns for u1.
C35_Witness ==
    /\ response.route = "refund"
    /\ response.success
    /\ Len(transactions) = 1
    /\ transactions[1].status = "refunded"
    /\ Len(subscriptions) = 1
    /\ subscriptions[1].transactionId = transactions[1].id
    /\ subscriptions[1].status = "active"
    /\ GetUserActiveSubscription(subscriptions, "u1", now) = <<subscriptions[1]>>

\* C36: the modal enters the success step from the pix step only; once it
\* shows the error step, a poll response that was in flight and says paid
\* does not move it to success.
C36_SuccessOnlyFromPix ==
    [][(client'.step = "success" /\ client.step # "success")
          => client.step = "pix"]_vars

\* C37: when SourcePay accepts the creation, createTransaction returns the
\* created transaction with success true whatever becomes of the follow-up
\* fetch for the PIX code (rejected, not ok, unreadable, without a code):
\* the code is the follow-up's if it brought one and the creation's own
\* otherwise, and one follow-up fetch is made, never more.
C37_CreationSurvivesFailedEnrichment ==
    [][\A reply \in SourcePayCreateReplies, details \in SourcePayDetailsReplies :
          (/\ SourcePayCreate(reply, details)
           /\ reply.kind = "body"
           /\ reply.success # "false")
          => /\ response'.success
             /\ response'.code = 200
             /\ response'.qrCodeText =
                    IF details = "pix" THEN "pix" ELSE reply.qrCode
             /\ response'.data = <<"create", "details">>]_vars

\* A creation has returned with success and without a PIX code, after its
\* one follow-up fetch.
C37_Witness ==
    /\ response.route = "sourcepay.create"
    /\ response.success
    /\ response.qrCodeText = ""
    /\ response.data = <<"create", "details">>

====
